---- MODULE Spec2Model ----
(***************************************************************************)
(* Sovereign Network Defense: the detection and alerting engine.           *)
(*                                                                         *)
(*   PacketMonitor      src/src/network/packet_monitor.py                  *)
(*   NetworkMonitor     src/src/network/monitor.py                         *)
(*   FileAccessMonitor  src/src/files/file_monitor.py                      *)
(*   ProcessMonitor     src/src/process/process_monitor.py                 *)
(*   AlertSystem        src/src/network/alert_system.py                    *)
(*                                                                         *)
(* time.time() is read from the variable now, counted in ticks of          *)
(* 1/TicksPerSecond seconds; the clock never runs backwards.               *)
(***************************************************************************)
EXTENDS Integers, Sequences, FiniteSets, TLC

VARIABLES
    now,              \* the wall clock, in ticks
    scan_tracker,     \* PacketMonitor.scan_tracker: source ip -> tracking record
    packet_alerts,    \* lines of logs/packet_alerts.log (PacketMonitor.log_alert)
    run,              \* history: per source, the calls of detect_port_scan since construction
    since_alert,      \* history: per source, the ports named by its calls since its last alert
    pc,               \* producer thread -> the line of detect_port_scan it is about to run
    frame,            \* producer thread -> the arguments and locals of its call
    conc_called,      \* history: the ports named by the calls the producer threads made
    local_ips,        \* NetworkMonitor.local_ips: the IPv4 addresses of this machine
    conn_in,          \* the connection handed to is_inbound_connection
    verdict,          \* <<>>, or <<b>> once is_inbound_connection has returned b for conn_in
    seen_connections, \* NetworkMonitor.monitor: the identities already analysed
    all_connections,  \* lines of logs/all_connections.log (NetworkMonitor.log_connection)
    network_alerts,   \* lines of logs/network_alerts.log (NetworkMonitor.log_alert)
    polls,            \* the number of polls NetworkMonitor.monitor has made
    observed,         \* history: the connections the polls have listed
    analyses,         \* history: connection -> the number of calls of analyze_connection
    recent_events,    \* FileAccessMonitor.recent_events: event key -> time of its last alert
    file_access,      \* lines of logs/file_access.log (FileAccessMonitor.log_file_event)
    alerts,           \* lines of logs/alerts.log (AlertSystem.send_alert)
    dir_events,       \* history: the number of directory events the file handlers were given
    known_processes,  \* ProcessMonitor.known_processes: the pids of the previous check
    process_log,      \* lines of logs/process_monitor.log (ProcessMonitor.log_process_event)
    process_thread,   \* "constructed", "running" (inside monitor's loop) or "dead"
    snapshot,         \* history: the process table the latest check was given, pid -> name
    ticks,            \* the number of checks ProcessMonitor.monitor has started
    high_resource_tracker, \* ProcessMonitor.high_resource_tracker: <<metric, pid>> -> streak
    resource_checks,  \* the number of calls of check_resource_usage
    over_run,         \* history: <<metric, pid>> -> the number of latest consecutive calls of
                      \* check_resource_usage that listed pid with metric over its threshold
    dispatched,       \* history: per call of AlertSystem.send_alert, what became of each channel
    euid,             \* os.geteuid() as read by the start-up check, None before it
    main_pc,          \* where the main thread of sovereign_defense.py is
    handler_pc,       \* where the SIGINT handler running on the main thread is, or "none"
    sigint_handler,   \* the object whose signal_handler is registered for SIGINT, or "default"
    defense_running,  \* SovereignDefense.running: <<>> before construction, then <<b>>
    unified_running,  \* UnifiedMonitor.running: <<>> before construction, then <<b>>
    started,          \* the workers that have been started
    exit_status,      \* the exit status of the process, None while it runs
    sent              \* history: worker -> the number of alerts it has dispatched

scanVars == <<scan_tracker, packet_alerts, run, since_alert>>
concVars == <<pc, frame, conc_called>>

classVars == <<conn_in, verdict>>
connVars == <<local_ips, seen_connections, all_connections, network_alerts, polls,
              observed, analyses>>

fileVars == <<recent_events, file_access, dir_events, alerts, dir_events>>
procVars == <<known_processes, process_log, process_thread, snapshot, ticks>>
resVars == <<high_resource_tracker, resource_checks, over_run>>
sinkVars == <<dispatched>>
lifeVars == <<euid, main_pc, handler_pc, sigint_handler, defense_running, unified_running,
              started, exit_status, sent>>
hostVars == <<fileVars, procVars, resVars, sinkVars, lifeVars>>
vars == <<now, scanVars, concVars, classVars, connVars, hostVars>>

----------------------------------------------------------------------------
(* Bounds of the model *)

TicksPerSecond == 2
ScanSlack == 2
MaxScanAlerts == 2
MaxPolls == 3
MaxPollLen == 2
MaxFileEvents == 3
MaxDirEvents == 1
MaxTicks == 3
MaxResourceChecks == 4
MaxDispatches == 2
MaxWorkerAlerts == 2
ConcMaxTime == 1

(* Program constants *)

port_scan_threshold == 5
time_window == 10
event_window == 1
cpu_threshold == 80
memory_threshold == 80
alert_threshold == 3
PortsShown == 10

None == -1

----------------------------------------------------------------------------
(* Helpers *)

Last(s) == s[Len(s)]

MinOf(S) == CHOOSE x \in S : \A y \in S : x <= y

RECURSIVE sorted(_)
sorted(S) == IF S = {} THEN <<>> ELSE <<MinOf(S)>> \o sorted(S \ {MinOf(S)})

Prefix(s, n) == SubSeq(s, 1, IF Len(s) < n THEN Len(s) ELSE n)

----------------------------------------------------------------------------
(* PacketMonitor *)

ScanSources == {"10.0.0.5", "10.0.0.9"}
ScanTargets == {"192.168.1.10", "192.168.1.11"}
Ports == {22, 80, 443, 3306, 8080}
SYN == 2

NewTracker == [syn_count |-> 0, ports |-> {}, first_seen |-> None, last_seen |-> None]

Packets(srcs, dsts) ==
    [ip : {TRUE}, src : srcs, dst : dsts, l4 : {"TCP"},
     flags : {SYN, 16, SYN + 16}, dport : Ports]
    \cup [ip : {TRUE}, src : srcs, dst : dsts, l4 : {"UDP"},
          flags : {0}, dport : Ports]
    \cup [ip : {TRUE}, src : {"10.0.0.5"}, dst : {"192.168.1.10"}, l4 : {"ICMP"},
          flags : {0}, dport : {0}]
    \cup [ip : {FALSE}, src : {""}, dst : {""}, l4 : {"ARP"}, flags : {0}, dport : {0}]

HasSyn(flags) == (flags \div SYN) % 2 = 1

Tracked_ge(tracker, src_ip, dst_port, current_time) ==
    LET t0 == tracker[src_ip]
        t1 == IF t0.first_seen = None THEN [t0 EXCEPT !.first_seen = current_time] ELSE t0
        t2 == [t1 EXCEPT !.last_seen = current_time, !.ports = @ \cup {dst_port}]
    IN  IF current_time - t2.first_seen >= time_window * TicksPerSecond
        THEN [syn_count |-> 0, ports |-> {dst_port},
              first_seen |-> current_time, last_seen |-> current_time]
        ELSE t2

(* The tracker of src_ip as lines 108-122 leave it. *)
Tracked(tracker, src_ip, dst_port, current_time) ==
    LET t0 == tracker[src_ip]
        t1 == IF t0.first_seen = None THEN [t0 EXCEPT !.first_seen = current_time] ELSE t0
        t2 == [t1 EXCEPT !.last_seen = current_time, !.ports = @ \cup {dst_port}]
    IN  IF current_time - t2.first_seen > time_window * TicksPerSecond
        THEN [syn_count |-> 0, ports |-> {dst_port},
              first_seen |-> current_time, last_seen |-> current_time]
        ELSE t2

ThresholdReached_gt(unique_ports) == unique_ports > port_scan_threshold

ThresholdReached(unique_ports) == unique_ports >= port_scan_threshold

ScanAlert(t, src_ip, dst_ip, protocol, current_time) ==
    LET ports_list == sorted(t.ports)
    IN  [severity |-> "PORT_SCAN", src |-> src_ip, dst |-> dst_ip,
         unique_ports |-> Cardinality(t.ports),
         time_span |-> current_time - t.first_seen,
         ports |-> Prefix(ports_list, PortsShown),
         ellipsis |-> Len(ports_list) > PortsShown,
         protocol |-> protocol]

AfterAlert_keep(t, current_time) == [t EXCEPT !.first_seen = current_time]

(* The tracker of src_ip after the reset that follows an alert. *)
AfterAlert(t, current_time) == [t EXCEPT !.ports = {}, !.first_seen = current_time]

TrackerKey_shared(src_ip) == "10.0.0.5"

(* The key of scan_tracker that a call for src_ip reads and writes. *)
TrackerKey(src_ip) == src_ip

detect_port_scan(src_ip, dst_ip, dst_port, protocol) ==
    LET current_time == now
        key == TrackerKey(src_ip)
        t == Tracked(scan_tracker, key, dst_port, current_time)
    IN  IF ThresholdReached(Cardinality(t.ports))
        THEN /\ packet_alerts' = Append(packet_alerts,
                                  ScanAlert(t, src_ip, dst_ip, protocol, current_time))
             /\ scan_tracker' = [scan_tracker EXCEPT ![key] = AfterAlert(t, current_time)]
        ELSE /\ scan_tracker' = [scan_tracker EXCEPT ![key] = t]
             /\ UNCHANGED packet_alerts

(* UnifiedMonitor.handle_packet_alert, the alert_callback of the packet       *)
(* monitor: its body is pass, alerts.log is left as it is.                    *)
handle_packet_alert(sink, message, severity) == sink

ReachesDetector_any(packet) ==
    /\ packet.ip
    /\ packet.l4 \in {"TCP", "UDP"}

ReachesDetector(packet) ==
    /\ packet.ip
    /\ \/ packet.l4 = "TCP" /\ HasSyn(packet.flags)
       \/ packet.l4 = "UDP"

(* History of the calls of one source: n calls so far, the ports they named, *)
(* the time of the first, the positions of the calls that raised an alert.   *)
(* ok: the calls named pairwise distinct ports, all within the window of the *)
(* first; the record is kept up to the call that reaches the threshold.      *)
NoRun == [n |-> 0, ports |-> {}, start |-> None, ok |-> TRUE, alerts |-> {}]
BrokenRun == [n |-> 0, ports |-> {}, start |-> None, ok |-> FALSE, alerts |-> {}]

RunAfter(r, dst_port, current_time, alerted) ==
    LET start == IF r.n = 0 THEN current_time ELSE r.start
        n == r.n + 1
    IN  IF ~r.ok \/ r.n >= port_scan_threshold THEN r
        ELSE IF n = port_scan_threshold /\ dst_port \notin r.ports
                /\ current_time - start <= time_window * TicksPerSecond
        THEN [n |-> n, ports |-> {}, start |-> None, ok |-> TRUE,
              alerts |-> IF alerted THEN r.alerts \cup {n} ELSE r.alerts]
        ELSE IF dst_port \in r.ports
                \/ current_time - start > time_window * TicksPerSecond
        THEN BrokenRun
        ELSE [n |-> n, ports |-> r.ports \cup {dst_port}, start |-> start, ok |-> TRUE,
              alerts |-> IF alerted THEN r.alerts \cup {n} ELSE r.alerts]

analyze_packet(packet) ==
    /\ Len(packet_alerts) < MaxScanAlerts
    /\ IF ReachesDetector(packet)
       THEN /\ detect_port_scan(packet.src, packet.dst, packet.dport, packet.l4)
            /\ run' = [run EXCEPT ![packet.src] =
                         RunAfter(@, packet.dport, now,
                                  Len(packet_alerts') > Len(packet_alerts))]
            /\ since_alert' = [since_alert EXCEPT ![packet.src] =
                         IF Len(packet_alerts') > Len(packet_alerts)
                         THEN {} ELSE @ \cup {packet.dport}]
       ELSE UNCHANGED <<scan_tracker, packet_alerts, run, since_alert>>
    /\ alerts' = IF Len(packet_alerts') > Len(packet_alerts)
                 THEN handle_packet_alert(alerts, Last(packet_alerts'), "PORT_SCAN")
                 ELSE alerts
    /\ UNCHANGED <<now, concVars, classVars, connVars, recent_events, file_access, dir_events,
                   procVars, resVars, sinkVars, lifeVars>>


----------------------------------------------------------------------------
(* PacketMonitor.detect_port_scan, line by line, run by producer threads that *)
(* share one PacketMonitor. The method takes no lock: a thread may be         *)
(* preempted between any two of its statements.                               *)

Threads == {"T1", "T2"}

NoFrame == [src_ip |-> "", dst_ip |-> "", dst_port |-> 0, protocol |-> "",
            current_time |-> None, unique_ports |-> 0]

Goto(t, label) == pc' = [pc EXCEPT ![t] = label]

(* A producer calls detect_port_scan with a port no earlier call named. *)
Call(t, src_ip, dst_ip, dst_port, protocol) ==
    /\ pc[t] = "idle"
    /\ dst_port \notin conc_called
    /\ frame' = [frame EXCEPT ![t] = [NoFrame EXCEPT !.src_ip = src_ip, !.dst_ip = dst_ip,
                                        !.dst_port = dst_port, !.protocol = protocol]]
    /\ conc_called' = conc_called \cup {dst_port}
    /\ Goto(t, "L105")
    /\ UNCHANGED <<now, scanVars, classVars, connVars, hostVars>>

L105(t) ==
    /\ pc[t] = "L105"
    /\ frame' = [frame EXCEPT ![t].current_time = now]
    /\ Goto(t, "L108")
    /\ UNCHANGED <<now, scanVars, conc_called, classVars, connVars, hostVars>>

L108(t) ==
    /\ pc[t] = "L108"
    /\ scan_tracker' = [scan_tracker EXCEPT ![frame[t].src_ip].first_seen =
                           IF @ = None THEN frame[t].current_time ELSE @]
    /\ Goto(t, "L111")
    /\ UNCHANGED <<now, packet_alerts, run, since_alert, frame, conc_called, classVars,
                   connVars, hostVars>>

L111(t) ==
    /\ pc[t] = "L111"
    /\ scan_tracker' = [scan_tracker EXCEPT ![frame[t].src_ip].last_seen =
                           frame[t].current_time]
    /\ Goto(t, "L112")
    /\ UNCHANGED <<now, packet_alerts, run, since_alert, frame, conc_called, classVars,
                   connVars, hostVars>>

L112(t) ==
    /\ pc[t] = "L112"
    /\ scan_tracker' = [scan_tracker EXCEPT ![frame[t].src_ip].ports =
                           @ \cup {frame[t].dst_port}]
    /\ Goto(t, "L115")
    /\ UNCHANGED <<now, packet_alerts, run, since_alert, frame, conc_called, classVars,
                   connVars, hostVars>>

L115(t) ==
    /\ pc[t] = "L115"
    /\ scan_tracker' =
          IF frame[t].current_time - scan_tracker[frame[t].src_ip].first_seen
                > time_window * TicksPerSecond
          THEN [scan_tracker EXCEPT ![frame[t].src_ip] =
                   [syn_count |-> 0, ports |-> {frame[t].dst_port},
                    first_seen |-> frame[t].current_time,
                    last_seen |-> frame[t].current_time]]
          ELSE scan_tracker
    /\ Goto(t, "L125")
    /\ UNCHANGED <<now, packet_alerts, run, since_alert, frame, conc_called, classVars,
                   connVars, hostVars>>

L125(t) ==
    /\ pc[t] = "L125"
    /\ frame' = [frame EXCEPT ![t].unique_ports =
                    Cardinality(scan_tracker[frame[t].src_ip].ports)]
    /\ Goto(t, "L126")
    /\ UNCHANGED <<now, scanVars, conc_called, classVars, connVars, hostVars>>

L126(t) ==
    /\ pc[t] = "L126"
    /\ IF ThresholdReached(frame[t].unique_ports)
       THEN Goto(t, "L127") /\ UNCHANGED frame
       ELSE Goto(t, "idle") /\ frame' = [frame EXCEPT ![t] = NoFrame]
    /\ UNCHANGED <<now, scanVars, conc_called, classVars, connVars, hostVars>>

(* Lines 127-136: the message is built from the tracker as it is now. *)
L127(t) ==
    /\ pc[t] = "L127"
    /\ packet_alerts' = Append(packet_alerts,
          [ScanAlert(scan_tracker[frame[t].src_ip], frame[t].src_ip, frame[t].dst_ip,
                     frame[t].protocol, frame[t].current_time)
             EXCEPT !.unique_ports = frame[t].unique_ports])
    /\ alerts' = handle_packet_alert(alerts, Last(packet_alerts'), "PORT_SCAN")
    /\ Goto(t, "L139")
    /\ UNCHANGED <<now, scan_tracker, run, since_alert, frame, conc_called, classVars,
                   connVars, recent_events, file_access, dir_events, procVars, resVars, sinkVars,
                   lifeVars>>

L139(t) ==
    /\ pc[t] = "L139"
    /\ scan_tracker' = [scan_tracker EXCEPT ![frame[t].src_ip].ports = {}]
    /\ Goto(t, "L140")
    /\ UNCHANGED <<now, packet_alerts, run, since_alert, frame, conc_called, classVars,
                   connVars, hostVars>>

L140(t) ==
    /\ pc[t] = "L140"
    /\ scan_tracker' = [scan_tracker EXCEPT ![frame[t].src_ip].first_seen =
                           frame[t].current_time]
    /\ Goto(t, "idle")
    /\ frame' = [frame EXCEPT ![t] = NoFrame]
    /\ UNCHANGED <<now, packet_alerts, run, since_alert, conc_called, classVars, connVars, hostVars>>

ConcTick ==
    /\ now < ConcMaxTime
    /\ now' = now + 1
    /\ UNCHANGED <<scanVars, concVars, classVars, connVars, hostVars>>

----------------------------------------------------------------------------
(* NetworkMonitor *)

(* An address is the text psutil gives: dotted IPv4 ("127.0.0.1", here its    *)
(* four fields) or IPv6 ("::1", here its eight groups). laddr and raddr are   *)
(* <<>> (psutil's empty tuple) or <<ip, port>>.                               *)
V4(a, b, c, d) == [v |-> 4, a |-> <<a, b, c, d>>]
V6(g) == [v |-> 6, a |-> g]

Lo == V4(127, 0, 0, 1)
LoResolver == V4(127, 0, 0, 53)
Lan == V4(192, 168, 1, 10)
Vpn == V4(10, 8, 0, 2)
AnyV4 == V4(0, 0, 0, 0)
Remote == V4(203, 0, 113, 7)
Lo6 == V6(<<0, 0, 0, 0, 0, 0, 0, 1>>)
Lan6 == V6(<<65152, 0, 0, 0, 0, 0, 0, 16>>)
Remote6 == V6(<<8193, 3512, 0, 0, 0, 0, 0, 7>>)

Ips == {Lo, LoResolver, Lan, Vpn, AnyV4, Remote, Lo6, Lan6, Remote6}

Statuses == {"ESTABLISHED", "LISTEN", "CLOSE_WAIT", "NONE"}

Addr(ip, port) == <<ip, port>>
ip(addr) == addr[1]
port(addr) == addr[2]

(* The connections psutil.net_connections(kind='inet') can list: both ends of *)
(* a socket are of one address family.                                        *)
Conns ==
    {c \in [laddr : {<<>>} \cup {Addr(i, 443) : i \in Ips},
            raddr : {<<>>} \cup {Addr(i, 51422) : i \in Ips},
            status : Statuses, pid : {812}] :
        (c.laddr # <<>> /\ c.raddr # <<>>) => ip(c.laddr).v = ip(c.raddr).v}

LocalIpSets == {{Lo, Lan}, {Lo, Lan, Vpn}, {Lan}}

(* remote_ip.startswith('127.') *)
StartsWith127(address) == address.v = 4 /\ address.a[1] = 127

is_inbound_connection_nofilter(conn) ==
    IF conn.status = "ESTABLISHED"
    THEN IF conn.laddr # <<>> /\ conn.raddr # <<>>
         THEN ip(conn.laddr) \in local_ips /\ ip(conn.raddr) \notin local_ips
         ELSE FALSE
    ELSE FALSE

is_inbound_connection(conn) ==
    IF conn.status = "ESTABLISHED"
    THEN IF conn.laddr # <<>> /\ conn.raddr # <<>>
         THEN IF ip(conn.laddr) \in local_ips /\ ip(conn.raddr) \notin local_ips
              THEN ~StartsWith127(ip(conn.raddr))
              ELSE FALSE
         ELSE FALSE
    ELSE FALSE

is_listening_port(conn) == conn.status = "LISTEN"

Classify ==
    /\ verdict = <<>>
    /\ verdict' = <<is_inbound_connection(conn_in)>>
    /\ UNCHANGED <<now, scanVars, concVars, conn_in, connVars, hostVars>>

NextConnection ==
    /\ verdict # <<>>
    /\ conn_in' \in Conns
    /\ verdict' = <<>>
    /\ UNCHANGED <<now, scanVars, concVars, connVars, hostVars>>

(* psutil.Process(pid).name(): pid 812 is sshd, pid 4242 has exited. *)
process_name(pid) ==
    IF pid # None /\ pid # 0
    THEN IF pid = 812 THEN "sshd" ELSE "Unknown"
    ELSE "Unknown"

NA == <<"N/A">>

(* f"{ip}:{port}", or "N/A" *)
AddrText(addr) == IF addr # <<>> THEN addr ELSE NA

(* conn_id of lines 156-161; <<>> where the loop continues without one. *)
conn_id(conn) ==
    IF conn.laddr # <<>> /\ conn.raddr # <<>>
    THEN <<ip(conn.laddr), port(conn.laddr), ip(conn.raddr), port(conn.raddr), conn.status>>
    ELSE IF conn.laddr # <<>>
    THEN <<ip(conn.laddr), port(conn.laddr), conn.status>>
    ELSE <<>>

conn_info(conn) ==
    [local |-> AddrText(conn.laddr), remote |-> AddrText(conn.raddr),
     status |-> conn.status, process |-> process_name(conn.pid), pid |-> conn.pid]

ThreatAlert(conn) ==
    [severity |-> "THREAT", remote_ip |-> ip(conn.raddr), local |-> AddrText(conn.laddr),
     process |-> process_name(conn.pid), pid |-> conn.pid]

(* The call inside analyze_connection that raises, if one does: none,        *)
(* log_connection (line 116: all_connections.log cannot be written) or        *)
(* log_alert (line 120: the console or network_alerts.log cannot be written). *)
Faults == {"none", "log_connection", "log_alert"}

(* analyze_connection on the logs m = [log, alerts]. An exception raised in   *)
(* the try block ends the analysis at the except clause of line 132, and one   *)
(* raised there at the except clause of monitor, line 168.                     *)
analyze_connection(m, conn, fault) ==
    IF fault = "log_connection" THEN m
    ELSE [log |-> Append(m.log, conn_info(conn)),
          alerts |-> IF is_inbound_connection(conn) /\ fault # "log_alert"
                     THEN Append(m.alerts, ThreatAlert(conn)) ELSE m.alerts]

Marked_after(seen, conn, fault) ==
    IF fault = "none" THEN seen \cup {conn_id(conn)} ELSE seen

(* line 165, which runs before the call of analyze_connection of line 166 *)
Marked(seen, conn, fault) == seen \cup {conn_id(conn)}

NewIdentity_always(seen, conn) == conn_id(conn) # <<>>

(* lines 156-164: the connection has an identity and it is not in the set *)
NewIdentity(seen, conn) == conn_id(conn) # <<>> /\ conn_id(conn) \notin seen

(* One pass of the for loop of lines 153-169 over the listed connections;     *)
(* m = [seen, log, alerts, analyses].                                         *)
RECURSIVE ForEachConnection(_, _, _)
ForEachConnection(m, connections, fault) ==
    IF connections = <<>> THEN m
    ELSE LET conn == Head(connections)
             after == analyze_connection(m, conn, fault)
         IN  IF NewIdentity(m.seen, conn)
             THEN ForEachConnection(
                      [seen |-> Marked(m.seen, conn, fault),
                       log |-> after.log, alerts |-> after.alerts,
                       analyses |-> [m.analyses EXCEPT ![conn] = @ + 1]],
                      Tail(connections), fault)
             ELSE ForEachConnection(m, Tail(connections), fault)

(* One iteration of the while loop of NetworkMonitor.monitor; fault is the   *)
(* call that raises in the analyses of this iteration.                        *)
Poll(connections, fault) ==
    /\ polls < MaxPolls
    /\ LET m == ForEachConnection(
                   [seen |-> seen_connections, log |-> all_connections,
                    alerts |-> network_alerts, analyses |-> analyses],
                   connections, fault)
       IN  /\ seen_connections' = m.seen
           /\ all_connections' = m.log
           /\ network_alerts' = m.alerts
           /\ analyses' = m.analyses
    /\ observed' = observed \cup {connections[i] : i \in DOMAIN connections}
    /\ polls' = polls + 1
    /\ UNCHANGED <<now, scanVars, concVars, classVars, local_ips, hostVars>>

Threat == [laddr |-> Addr(Lan, 443), raddr |-> Addr(Remote, 51422),
           status |-> "ESTABLISHED", pid |-> 812]
Closing == [Threat EXCEPT !.status = "CLOSE_WAIT"]
Listening == [laddr |-> Addr(AnyV4, 443), raddr |-> <<>>, status |-> "LISTEN", pid |-> 812]
Unbound == [laddr |-> <<>>, raddr |-> <<>>, status |-> "NONE", pid |-> None]
Resolver == [laddr |-> Addr(Lan, 443), raddr |-> Addr(LoResolver, 51422),
             status |-> "ESTABLISHED", pid |-> 4242]

PollConns == {Threat, Closing, Listening, Unbound, Resolver}

PollLists == UNION {[1..n -> PollConns] : n \in 0..MaxPollLen}

----------------------------------------------------------------------------
(* AlertSystem and FileAccessMonitor *)

(* send_alert: the line appended to alerts.log, with the channels requested;  *)
(* at is the moment of the call.                                              *)
send_alert(log, message, severity, play_sound) ==
    Append(log, [severity |-> severity, message |-> message,
                 play_sound |-> play_sound, notify |-> TRUE, at |-> now])

(* f"{event_type}: {path}", event_type being the sequence of its parts *)
log_file_event(log, event_type, path) == Append(log, <<event_type, path>>)

WithinWindow_le(current_time, last) == current_time - last <= event_window * TicksPerSecond

WithinWindow(current_time, last) == current_time - last < event_window * TicksPerSecond

(* should_alert: the value returned for event_key on a table of recent events *)
should_alert(recent, event_key) ==
    ~(recent[event_key] # None /\ WithinWindow(now, recent[event_key]))

Remembered_always(recent, event_key) == [recent EXCEPT ![event_key] = now]

(* should_alert: the table it leaves *)
Remembered(recent, event_key) ==
    IF should_alert(recent, event_key) THEN [recent EXCEPT ![event_key] = now] ELSE recent

Paths == {"/home/u/Documents/a.txt", "/home/u/Documents/b.txt"}

Directory == "/home/u/Documents"

EventKeys == {"modified", "created"} \X (Paths \cup {Directory})

FileEvents ==
    [event_type : {"modified", "created", "deleted"}, src_path : Paths,
     dest_path : {""}, is_directory : {FALSE}]
    \cup {[event_type |-> "moved", src_path |-> "/home/u/Documents/a.txt",
           dest_path |-> "/home/u/Documents/b.txt", is_directory |-> FALSE]}
    \cup [event_type : {"modified", "created", "deleted", "moved"},
          src_path : {Directory}, dest_path : {""}, is_directory : {TRUE}]

IsFileEvent_always(event) == TRUE

(* if event.is_directory: return *)
IsFileEvent(event) == ~event.is_directory

(* The handler returns at once. *)
Ignored ==
    /\ dir_events < MaxDirEvents
    /\ dir_events' = dir_events + 1
    /\ UNCHANGED <<recent_events, file_access, alerts>>

Handled(event) ==
    /\ Len(file_access) < MaxFileEvents
    /\ UNCHANGED <<now, scanVars, concVars, classVars, connVars, procVars, resVars,
                   sinkVars, lifeVars>>

on_modified(event) ==
    /\ event.event_type = "modified"
    /\ Handled(event)
    /\ IF ~IsFileEvent(event) THEN Ignored
       ELSE /\ UNCHANGED dir_events
            /\ LET event_key == <<"modified", event.src_path>>
               IN  /\ file_access' = log_file_event(file_access, <<"MODIFIED">>, event.src_path)
                   /\ recent_events' = Remembered(recent_events, event_key)
                   /\ alerts' = IF should_alert(recent_events, event_key)
                                THEN send_alert(alerts, <<"File modified", event.src_path>>,
                                                "FILE_MODIFIED", FALSE)
                                ELSE alerts

on_created(event) ==
    /\ event.event_type = "created"
    /\ Handled(event)
    /\ IF ~IsFileEvent(event) THEN Ignored
       ELSE /\ UNCHANGED dir_events
            /\ LET event_key == <<"created", event.src_path>>
               IN  /\ file_access' = log_file_event(file_access, <<"CREATED">>, event.src_path)
                   /\ recent_events' = Remembered(recent_events, event_key)
                   /\ alerts' = IF should_alert(recent_events, event_key)
                                THEN send_alert(alerts, <<"File created", event.src_path>>,
                                                "FILE_CREATED", FALSE)
                                ELSE alerts

KeptOnRemoval_cleared(recent, event) ==
    [key \in DOMAIN recent |-> IF key[2] = event.src_path THEN None ELSE recent[key]]

(* on_deleted and on_moved: recent_events as they leave it; neither calls     *)
(* should_alert nor names recent_events.                                      *)
KeptOnRemoval(recent, event) == recent

DeletionAlert_deduplicated(event) ==
    IF should_alert(recent_events, <<"modified", event.src_path>>)
    THEN send_alert(alerts, <<"FILE DELETION DETECTED", event.src_path>>, "FILE_DELETED", TRUE)
    ELSE alerts

(* on_deleted, lines 90-95: alerts.log after the unconditional alert *)
DeletionAlert(event) ==
    send_alert(alerts, <<"FILE DELETION DETECTED", event.src_path>>, "FILE_DELETED", TRUE)

on_deleted(event) ==
    /\ event.event_type = "deleted"
    /\ Handled(event)
    /\ IF ~IsFileEvent(event) THEN Ignored
       ELSE /\ UNCHANGED dir_events
            /\ file_access' = log_file_event(file_access, <<"DELETED">>, event.src_path)
            /\ alerts' = DeletionAlert(event)
            /\ recent_events' = KeptOnRemoval(recent_events, event)

MoveAlert_deduplicated(event) ==
    IF should_alert(recent_events, <<"modified", event.src_path>>)
    THEN send_alert(alerts, <<"File moved", event.src_path, event.dest_path>>, "FILE_MOVED", FALSE)
    ELSE alerts

(* on_moved, lines 104-108: alerts.log after the unconditional alert *)
MoveAlert(event) ==
    send_alert(alerts, <<"File moved", event.src_path, event.dest_path>>, "FILE_MOVED", FALSE)

on_moved(event) ==
    /\ event.event_type = "moved"
    /\ Handled(event)
    /\ IF ~IsFileEvent(event) THEN Ignored
       ELSE /\ UNCHANGED dir_events
            /\ file_access' = log_file_event(
                   file_access, <<"MOVED from", event.src_path, "to", event.dest_path>>, "")
            /\ alerts' = MoveAlert(event)
            /\ recent_events' = KeptOnRemoval(recent_events, event)

FileMaxTime == 2 * event_window * TicksPerSecond

FileTick ==
    /\ now < FileMaxTime
    /\ now' = now + 1
    /\ UNCHANGED <<scanVars, concVars, classVars, connVars, hostVars>>

----------------------------------------------------------------------------
(* ProcessMonitor; a string is the sequence of its characters *)

suspicious_names ==
    {
     <<"n", "c">>, <<"n", "e", "t", "c", "a", "t">>, <<"n", "m", "a", "p">>, <<"m", "a", "s", "s", "c", "a", "n">>, <<"h", "p", "i", "n", "g">>,
     <<"m", "e", "t", "a", "s", "p", "l", "o", "i", "t">>, <<"m", "s", "f", "c", "o", "n", "s", "o", "l", "e">>, <<"a", "r", "m", "i", "t", "a", "g", "e">>,
     <<"m", "i", "m", "i", "k", "a", "t", "z">>, <<"p", "r", "o", "c", "d", "u", "m", "p">>, <<"p", "w", "d", "u", "m", "p">>,
     <<"k", "e", "y", "l", "o", "g", "g", "e", "r">>, <<"l", "o", "g", "g", "e", "r">>,
     <<"c", "r", "y", "p", "t", "o", "m", "i", "n", "e", "r">>, <<"x", "m", "r", "i", "g">>, <<"m", "i", "n", "e", "r", "g", "a", "t", "e">>,
     <<"b", "a", "c", "k", "d", "o", "o", "r">>, <<"t", "r", "o", "j", "a", "n">>, <<"r", "o", "o", "t", "k", "i", "t">>}

UpperCase == <<"A", "B", "C", "D", "E", "F", "G", "H", "I", "J", "K", "L", "M", "N", "O", "P", "Q", "R", "S", "T", "U", "V", "W", "X", "Y", "Z">>

LowerCase == <<"a", "b", "c", "d", "e", "f", "g", "h", "i", "j", "k", "l", "m", "n", "o", "p", "q", "r", "s", "t", "u", "v", "w", "x", "y", "z">>

(* str.lower() *)
lower(text) ==
    [i \in DOMAIN text |->
        IF \E k \in DOMAIN UpperCase : UpperCase[k] = text[i]
        THEN LowerCase[CHOOSE k \in DOMAIN UpperCase : UpperCase[k] = text[i]]
        ELSE text[i]]

(* part in text *)
Contains(text, part) ==
    \E i \in 0..(Len(text) - Len(part)) : SubSeq(text, i + 1, i + Len(part)) = part

(* is_suspicious_name for a name that is a string *)
is_suspicious_name(name) ==
    \E suspicious \in suspicious_names : Contains(lower(name), suspicious)

Pids == {101, 202}

(* proc.info['name']: a string, or None where psutil was denied the name *)
NoName == [none |-> TRUE, str |-> <<>>]

Name(text) == [none |-> FALSE, str |-> text]

Names == {Name(<<"N", "m", "a", "p">>), Name(<<"b", "a", "s", "h">>), NoName}

(* psutil.process_iter: a table pid -> name of the processes running *)
Snapshots == UNION {[running -> Names] : running \in SUBSET Pids}

SuspiciousAlert(name, pid) ==
    [severity |-> "SUSPICIOUS_PROCESS", message |-> <<"SUSPICIOUS PROCESS DETECTED", name, pid>>,
     play_sound |-> TRUE, notify |-> TRUE, at |-> now]

(* The for loop of check_new_processes over the pids still to visit, in the   *)
(* order of process_iter (ascending pid); m = [current, log, alerts, raised]. *)
(* name.lower() on a name that is None raises AttributeError, which the       *)
(* except clause of line 92 does not catch: the loop ends there.              *)
RECURSIVE ForEachProcess(_, _, _)
ForEachProcess(m, table, todo) ==
    IF todo = {} THEN m
    ELSE LET pid == MinOf(todo)
             name == table[pid]
             current == m.current \cup {pid}
             logged == Append(m.log, <<"NEW_PROCESS", pid, name>>)
         IN  IF pid \in known_processes
             THEN ForEachProcess([m EXCEPT !.current = current], table, todo \ {pid})
             ELSE IF name.none
             THEN [m EXCEPT !.current = current, !.log = logged, !.raised = TRUE]
             ELSE ForEachProcess(
                      [m EXCEPT !.current = current, !.log = logged,
                                !.alerts = IF is_suspicious_name(name.str)
                                           THEN Append(@, SuspiciousAlert(name, pid)) ELSE @],
                      table, todo \ {pid})

(* monitor, line 179: known_processes starts as the pids running at start-up *)
monitor(table) ==
    /\ process_thread = "constructed"
    /\ known_processes' = DOMAIN table
    /\ process_thread' = "running"
    /\ UNCHANGED <<now, scanVars, concVars, classVars, connVars, fileVars,
                   process_log, snapshot, ticks, resVars, sinkVars, lifeVars>>

(* One check_new_processes call of monitor's loop; an exception it lets out   *)
(* ends monitor, which catches KeyboardInterrupt only.                        *)
check_new_processes(table) ==
    /\ process_thread = "running"
    /\ ticks < MaxTicks
    /\ LET m == ForEachProcess(
                   [current |-> {}, log |-> process_log, alerts |-> alerts, raised |-> FALSE],
                   table, DOMAIN table)
       IN  /\ process_log' = m.log
           /\ alerts' = m.alerts
           /\ known_processes' = IF m.raised THEN known_processes ELSE m.current
           /\ process_thread' = IF m.raised THEN "dead" ELSE "running"
    /\ snapshot' = table
    /\ ticks' = ticks + 1
    /\ UNCHANGED <<now, scanVars, concVars, classVars, connVars, recent_events, file_access, dir_events,
                   resVars, sinkVars, lifeVars>>

----------------------------------------------------------------------------
(* ProcessMonitor.check_resource_usage *)

Metrics == {"cpu", "mem"}

threshold(metric) == IF metric = "cpu" THEN cpu_threshold ELSE memory_threshold

(* proc.info['cpu_percent'], proc.info['memory_percent']: a percentage, or    *)
(* None where psutil was denied the reading                                   *)
Percents == {None, 80, 95}

(* psutil.process_iter: pid -> [name, cpu, mem] of the processes running *)
Usages ==
    UNION {[running -> [name : {Name(<<"b", "a", "s", "h">>)}, cpu : Percents, mem : Percents]]
              : running \in SUBSET Pids}

ResourceAlert(metric, name, pid, percent) ==
    [severity |-> IF metric = "cpu" THEN "HIGH_CPU" ELSE "HIGH_MEMORY",
     message |-> <<IF metric = "cpu" THEN "HIGH CPU USAGE" ELSE "HIGH MEMORY USAGE",
                   name, pid, percent, threshold(metric)>>,
     play_sound |-> FALSE, notify |-> TRUE, at |-> now]

StreakReached_gt(streak) == streak > alert_threshold

StreakReached(streak) == streak >= alert_threshold

(* Lines 107-128 (cpu) and 130-149 (mem) for one process whose reading is a   *)
(* number; m = [tracker, log, alerts, raised].                                *)
CheckMetric(m, metric, pid, name, percent) ==
    IF percent > threshold(metric)
    THEN IF StreakReached(m.tracker[<<metric, pid>>] + 1)
         THEN [m EXCEPT !.tracker[<<metric, pid>>] = 0,
                        !.log = Append(@, <<IF metric = "cpu" THEN "HIGH_CPU" ELSE "HIGH_MEMORY",
                                            pid, name, percent>>),
                        !.alerts = Append(@, ResourceAlert(metric, name, pid, percent))]
         ELSE [m EXCEPT !.tracker[<<metric, pid>>] = @ + 1]
    ELSE [m EXCEPT !.tracker[<<metric, pid>>] = 0]

(* The for loop of check_resource_usage over the pids still to visit, in the  *)
(* order of process_iter (ascending pid). Comparing a reading that is None    *)
(* with the threshold raises TypeError, which the except clause of line 151   *)
(* does not catch: the loop ends there.                                       *)
RECURSIVE ForEachUsage(_, _, _)
ForEachUsage(m, table, todo) ==
    IF todo = {} THEN m
    ELSE LET pid == MinOf(todo)
             proc == table[pid]
             cpu_done == CheckMetric(m, "cpu", pid, proc.name, proc.cpu)
         IN  IF proc.cpu = None THEN [m EXCEPT !.raised = TRUE]
             ELSE IF proc.mem = None THEN [cpu_done EXCEPT !.raised = TRUE]
             ELSE ForEachUsage(CheckMetric(cpu_done, "mem", pid, proc.name, proc.mem),
                               table, todo \ {pid})

Over(table, metric, pid) ==
    /\ pid \in DOMAIN table
    /\ table[pid][metric] # None
    /\ table[pid][metric] > threshold(metric)

(* One check_resource_usage call of monitor's loop; an exception it lets out  *)
(* ends monitor, which catches KeyboardInterrupt only.                        *)
check_resource_usage(table) ==
    /\ process_thread = "running"
    /\ resource_checks < MaxResourceChecks
    /\ LET m == ForEachUsage(
                   [tracker |-> high_resource_tracker, log |-> process_log,
                    alerts |-> alerts, raised |-> FALSE],
                   table, DOMAIN table)
       IN  /\ high_resource_tracker' = m.tracker
           /\ process_log' = m.log
           /\ alerts' = m.alerts
           /\ process_thread' = IF m.raised THEN "dead" ELSE "running"
    /\ resource_checks' = resource_checks + 1
    /\ over_run' = [k \in Metrics \X Pids |->
                       IF Over(table, k[1], k[2])
                       THEN IF over_run[k] < alert_threshold THEN over_run[k] + 1 ELSE over_run[k]
                       ELSE 0]
    /\ UNCHANGED <<now, scanVars, concVars, classVars, connVars, recent_events, file_access, dir_events,
                   known_processes, snapshot, ticks, sinkVars, lifeVars>>

----------------------------------------------------------------------------
(* AlertSystem.send_alert, channel by channel *)

(* sys.stdout: a terminal, None (no console), or closed / a broken pipe *)
StdoutStates == {"tty", "none", "broken"}

(* what running paplay and powershell.exe comes to *)
Environments ==
    [stdout : StdoutStates, paplay : {"ok", "missing", "timeout"}, powershell : {"ok", "missing"}]

(* play_alert_sound: writing the bell raises when stdout is None or broken;   *)
(* the outer except clause swallows it, and paplay is then never run.         *)
play_alert_sound(env) ==
    IF env.stdout = "tty"
    THEN [bell |-> "rung", cue |-> IF env.paplay = "ok" THEN "played" ELSE "failed"]
    ELSE [bell |-> "failed", cue |-> "not attempted"]

(* send_desktop_notification: Popen raises when powershell.exe is missing *)
send_desktop_notification(env) == IF env.powershell = "ok" THEN "shown" ELSE "failed"

(* print on a closed or broken stdout raises; on a None stdout it does nothing *)
PrintRaises(env) == env.stdout = "broken"

AlertMessages == {"FILE DELETION DETECTED: /home/u/Documents/a.txt", "File moved: a.txt -> b.txt"}

AlertSeverities == {"FILE_DELETED", "FILE_MOVED"}

(* One call send_alert(message, severity, play_sound, notify) *)
SendAlert(message, severity, play_sound, notify, env) ==
    /\ Len(dispatched) < MaxDispatches
    /\ dispatched' = Append(dispatched,
           [message |-> message, severity |-> severity,
            play_sound |-> play_sound, notify |-> notify, env |-> env,
            sound |-> IF play_sound THEN play_alert_sound(env)
                      ELSE [bell |-> "not attempted", cue |-> "not attempted"],
            notification |-> IF notify THEN send_desktop_notification(env) ELSE "not attempted",
            raised |-> PrintRaises(env)])
    /\ alerts' = IF PrintRaises(env) THEN alerts
                 ELSE Append(alerts, [severity |-> severity, message |-> message,
                                      play_sound |-> play_sound, notify |-> notify, at |-> now])
    /\ UNCHANGED <<now, scanVars, concVars, classVars, connVars, recent_events, file_access, dir_events,
                   procVars, resVars, lifeVars>>

----------------------------------------------------------------------------
(* sovereign_defense.py: start-up, the worker threads and the SIGINT handler. *)
(* The file, process and connection workers are daemon threads; the packet    *)
(* worker is the sniff loop of the main thread. A signal handler runs on the  *)
(* main thread, between two of its instructions, while the other threads go   *)
(* on running.                                                                *)

Workers == {"file", "process", "connection", "packet"}

Euids == {0, 1000}

IsRoot_any(uid) == uid \in Euids

(* os.geteuid() != 0 is the failure of the check *)
IsRoot(uid) == uid = 0

MainSteps == UNCHANGED <<now, scanVars, concVars, classVars, connVars, fileVars, procVars,
                         resVars, sinkVars>>

(* __main__, lines 66-69 *)
RootCheck(uid) ==
    /\ main_pc = "check" /\ handler_pc = "none"
    /\ euid' = uid
    /\ main_pc' = IF IsRoot(uid) THEN "SovereignDefense" ELSE "sys.exit(1)"
    /\ UNCHANGED <<handler_pc, sigint_handler, defense_running, unified_running, started,
                   exit_status, sent>>
    /\ MainSteps

ExitUnprivileged ==
    /\ main_pc = "sys.exit(1)" /\ handler_pc = "none"
    /\ main_pc' = "exited"
    /\ exit_status' = 1
    /\ UNCHANGED <<euid, handler_pc, sigint_handler, defense_running, unified_running, started,
                   sent>>
    /\ MainSteps

(* SovereignDefense.__init__, lines 21-23 *)
NewSovereignDefense ==
    /\ main_pc = "SovereignDefense" /\ handler_pc = "none"
    /\ defense_running' = <<TRUE>>
    /\ sigint_handler' = "SovereignDefense"
    /\ main_pc' = "file_thread.start"
    /\ UNCHANGED <<euid, handler_pc, unified_running, started, exit_status, sent>>
    /\ MainSteps

(* SovereignDefense.start, lines 45-57: Thread(...).start() of one worker *)
StartThread(worker, at, next) ==
    /\ main_pc = at /\ handler_pc = "none"
    /\ started' = started \cup {worker}
    /\ main_pc' = next
    /\ UNCHANGED <<euid, handler_pc, sigint_handler, defense_running, unified_running,
                   exit_status, sent>>
    /\ MainSteps

StartFileThread == StartThread("file", "file_thread.start", "process_thread.start")

StartProcessThread == StartThread("process", "process_thread.start", "UnifiedMonitor")

(* UnifiedMonitor.__init__, lines 14-26, called from SovereignDefense.start *)
NewUnifiedMonitor ==
    /\ main_pc = "UnifiedMonitor" /\ handler_pc = "none"
    /\ unified_running' = <<TRUE>>
    /\ sigint_handler' = "UnifiedMonitor"
    /\ main_pc' = "connection_thread.start"
    /\ UNCHANGED <<euid, handler_pc, defense_running, started, exit_status, sent>>
    /\ MainSteps

(* UnifiedMonitor.start, lines 50-54 *)
StartConnectionThread == StartThread("connection", "connection_thread.start", "start_sniffing")

(* UnifiedMonitor.start, line 58: the main thread enters sniff *)
StartSniffing == StartThread("packet", "start_sniffing", "sniff")

(* SIGINT arrives. With the default handler KeyboardInterrupt ends the main   *)
(* thread; otherwise the registered signal_handler starts on the main thread. *)
Interrupt ==
    /\ main_pc \notin {"unwinding", "exited"} /\ handler_pc = "none"
    /\ IF sigint_handler = "default"
       THEN /\ main_pc' = "exited"
            /\ exit_status' = 130
            /\ UNCHANGED handler_pc
       ELSE /\ handler_pc' = "print"
            /\ UNCHANGED <<main_pc, exit_status>>
    /\ UNCHANGED <<euid, sigint_handler, defense_running, unified_running, started, sent>>
    /\ MainSteps

(* signal_handler, line 27 (SovereignDefense) or 35 (UnifiedMonitor) *)
HandlerPrint ==
    /\ handler_pc = "print"
    /\ handler_pc' = "running = False"
    /\ UNCHANGED <<euid, main_pc, sigint_handler, defense_running, unified_running, started,
                   exit_status, sent>>
    /\ MainSteps

(* signal_handler, line 28 or 36: self.running = False *)
HandlerStop ==
    /\ handler_pc = "running = False"
    /\ IF sigint_handler = "SovereignDefense"
       THEN defense_running' = <<FALSE>> /\ UNCHANGED unified_running
       ELSE unified_running' = <<FALSE>> /\ UNCHANGED defense_running
    /\ handler_pc' = "sys.exit(0)"
    /\ UNCHANGED <<euid, main_pc, sigint_handler, started, exit_status, sent>>
    /\ MainSteps

(* signal_handler, line 29 or 37: SystemExit starts to unwind the main thread *)
HandlerExit ==
    /\ handler_pc = "sys.exit(0)"
    /\ handler_pc' = "none"
    /\ main_pc' = "unwinding"
    /\ UNCHANGED <<euid, sigint_handler, defense_running, unified_running, started,
                   exit_status, sent>>
    /\ MainSteps

(* The interpreter finishes: the process exits and the daemon threads end. *)
Finalize ==
    /\ main_pc = "unwinding"
    /\ main_pc' = "exited"
    /\ exit_status' = 0
    /\ UNCHANGED <<euid, handler_pc, sigint_handler, defense_running, unified_running, started,
                   sent>>
    /\ MainSteps

(* A worker is at work: a daemon thread while the process lives, the packet   *)
(* worker while the main thread is inside sniff and not inside the handler.   *)
AtWork(worker) ==
    /\ worker \in started
    /\ main_pc # "exited"
    /\ worker = "packet" => main_pc = "sniff" /\ handler_pc = "none"

(* One pass of a worker's loop that dispatches an alert. No worker loop reads *)
(* SovereignDefense.running or UnifiedMonitor.running.                        *)
WorkerAlert(worker) ==
    /\ AtWork(worker)
    /\ sent[worker] < MaxWorkerAlerts
    /\ sent' = [sent EXCEPT ![worker] = @ + 1]
    /\ UNCHANGED <<euid, main_pc, handler_pc, sigint_handler, defense_running, unified_running,
                   started, exit_status>>
    /\ MainSteps

----------------------------------------------------------------------------
(* The clock *)

ScanMaxTime == time_window * TicksPerSecond + ScanSlack
ScanDeltas == {(time_window * TicksPerSecond) \div 2, (time_window * TicksPerSecond) \div 2 + 1}

ScanTick(d) ==
    /\ now + d <= ScanMaxTime
    /\ now' = now + d
    /\ UNCHANGED <<scanVars, concVars, classVars, connVars, hostVars>>

----------------------------------------------------------------------------
NoConn == [laddr |-> <<>>, raddr |-> <<>>, status |-> "NONE", pid |-> 812]

Init ==
    /\ now = 0
    /\ local_ips = {Lo, Lan}
    /\ conn_in = NoConn
    /\ verdict = <<>>
    /\ seen_connections = {}
    /\ all_connections = <<>>
    /\ network_alerts = <<>>
    /\ polls = 0
    /\ observed = {}
    /\ analyses = [c \in PollConns |-> 0]
    /\ recent_events = [k \in EventKeys |-> None]
    /\ file_access = <<>>
    /\ alerts = <<>>
    /\ dir_events = 0
    /\ known_processes = {}
    /\ process_log = <<>>
    /\ process_thread = "constructed"
    /\ snapshot = [pid \in {} |-> NoName]
    /\ ticks = 0
    /\ high_resource_tracker = [k \in Metrics \X Pids |-> 0]
    /\ resource_checks = 0
    /\ dispatched = <<>>
    /\ euid = None
    /\ main_pc = "check"
    /\ handler_pc = "none"
    /\ sigint_handler = "default"
    /\ defense_running = <<>>
    /\ unified_running = <<>>
    /\ started = {}
    /\ exit_status = None
    /\ sent = [w \in Workers |-> 0]
    /\ over_run = [k \in Metrics \X Pids |-> 0]
    /\ scan_tracker = [s \in ScanSources |-> NewTracker]
    /\ packet_alerts = <<>>
    /\ run = [s \in ScanSources |-> NoRun]
    /\ since_alert = [s \in ScanSources |-> {}]
    /\ pc = [t \in Threads |-> "idle"]
    /\ frame = [t \in Threads |-> NoFrame]
    /\ conc_called = {}

SniffPacket == \E packet \in Packets({"10.0.0.5"}, {"192.168.1.10"}) : analyze_packet(packet)

AdvanceScanClock == \E d \in ScanDeltas : ScanTick(d)

NextScan == SniffPacket \/ AdvanceScanClock

SpecScan == Init /\ [][NextScan]_vars

(* The sniffer on a network with two sources and two local addresses. *)
SecondSourcePorts == {22, 80}

(* SYN packets of two sources, the second touching SecondSourcePorts only *)
SourcePackets ==
    {packet \in Packets(ScanSources, {"192.168.1.10"}) :
        /\ packet.l4 = "TCP"
        /\ packet.flags = SYN
        /\ packet.src = "10.0.0.9" => packet.dport \in SecondSourcePorts}

SniffAnyPacket == \E packet \in SourcePackets : analyze_packet(packet)

SourcesDelta == (time_window * TicksPerSecond) \div 2 + 1

AdvanceSourcesClock == ScanTick(SourcesDelta)

NextSources == SniffAnyPacket \/ AdvanceSourcesClock

SpecSources == Init /\ [][NextSources]_vars

(* The sniffer on the traffic of one source that sends TCP segments to the    *)
(* first local address, those with SYN to SynPorts only, and UDP datagrams to  *)
(* the other ports of the second local address.                                *)
SynPorts == {22, 80, 443}

PooledPackets ==
    {packet \in Packets({"10.0.0.5"}, ScanTargets) :
        /\ packet.l4 = "TCP" =>
              /\ packet.dst = "192.168.1.10"
              /\ HasSyn(packet.flags) => packet.dport \in SynPorts
        /\ packet.l4 = "UDP" =>
              /\ packet.dst = "192.168.1.11"
              /\ packet.dport \in Ports \ SynPorts}

SniffPooled == \E packet \in PooledPackets : analyze_packet(packet)

NextPooled == SniffPooled \/ AdvanceSourcesClock

SpecPooled == Init /\ [][NextPooled]_vars

Produce(t) ==
    \E dst_port \in Ports, protocol \in {"TCP", "UDP"} :
        Call(t, "10.0.0.5", "192.168.1.10", dst_port, protocol)

NextConc ==
    \/ \E t \in Threads :
          \/ Produce(t)
          \/ L105(t) \/ L108(t) \/ L111(t) \/ L112(t) \/ L115(t)
          \/ L125(t) \/ L126(t) \/ L127(t) \/ L139(t) \/ L140(t)
    \/ ConcTick

SpecConc == Init /\ [][NextConc]_vars

InitClassify ==
    /\ now = 0
    /\ scan_tracker = [s \in ScanSources |-> NewTracker]
    /\ packet_alerts = <<>>
    /\ run = [s \in ScanSources |-> NoRun]
    /\ since_alert = [s \in ScanSources |-> {}]
    /\ pc = [t \in Threads |-> "idle"]
    /\ frame = [t \in Threads |-> NoFrame]
    /\ conc_called = {}
    /\ local_ips \in LocalIpSets
    /\ conn_in \in Conns
    /\ verdict = <<>>
    /\ seen_connections = {}
    /\ all_connections = <<>>
    /\ network_alerts = <<>>
    /\ polls = 0
    /\ observed = {}
    /\ analyses = [c \in PollConns |-> 0]
    /\ recent_events = [k \in EventKeys |-> None]
    /\ file_access = <<>>
    /\ alerts = <<>>
    /\ dir_events = 0
    /\ known_processes = {}
    /\ process_log = <<>>
    /\ process_thread = "constructed"
    /\ snapshot = [pid \in {} |-> NoName]
    /\ ticks = 0
    /\ high_resource_tracker = [k \in Metrics \X Pids |-> 0]
    /\ resource_checks = 0
    /\ dispatched = <<>>
    /\ euid = None
    /\ main_pc = "check"
    /\ handler_pc = "none"
    /\ sigint_handler = "default"
    /\ defense_running = <<>>
    /\ unified_running = <<>>
    /\ started = {}
    /\ exit_status = None
    /\ sent = [w \in Workers |-> 0]
    /\ over_run = [k \in Metrics \X Pids |-> 0]

NextClassify == Classify \/ NextConnection

SpecClassify == InitClassify /\ [][NextClassify]_vars

(* The polls of a monitor whose logs and console can be written. *)
NextConn == \E connections \in PollLists : Poll(connections, "none")

SpecConn == Init /\ [][NextConn]_vars

(* The polls of a monitor whose analyses may raise. *)
NextFaults == \E connections \in PollLists, fault \in Faults : Poll(connections, fault)

SpecFaults == Init /\ [][NextFaults]_vars

NextFile ==
    \/ \E event \in FileEvents :
          on_modified(event) \/ on_created(event) \/ on_deleted(event) \/ on_moved(event)
    \/ FileTick

SpecFile == Init /\ [][NextFile]_vars

NextProc == \E table \in Snapshots : monitor(table) \/ check_new_processes(table)

SpecProc == Init /\ [][NextProc]_vars

StartProcessMonitor == \E table \in Snapshots : DOMAIN table = Pids /\ monitor(table)

NextResource == StartProcessMonitor \/ \E table \in Usages : check_resource_usage(table)

SpecResource == Init /\ [][NextResource]_vars

NextAlert ==
    \E message \in AlertMessages, severity \in AlertSeverities, play_sound \in BOOLEAN,
       notify \in BOOLEAN, env \in Environments :
        SendAlert(message, severity, play_sound, notify, env)

SpecAlert == Init /\ [][NextAlert]_vars

NextLifecycle ==
    \/ \E uid \in Euids : RootCheck(uid)
    \/ ExitUnprivileged
    \/ NewSovereignDefense
    \/ StartFileThread
    \/ StartProcessThread
    \/ NewUnifiedMonitor
    \/ StartConnectionThread
    \/ StartSniffing
    \/ Interrupt
    \/ HandlerPrint
    \/ HandlerStop
    \/ HandlerExit
    \/ Finalize
    \/ \E worker \in Workers : WorkerAlert(worker)

SpecLifecycle == Init /\ [][NextLifecycle]_vars

----------------------------------------------------------------------------
(* ScanDetector *)

Window == time_window * TicksPerSecond

(* A step in which detect_port_scan runs for source s and port p. *)
DetectStep(s, p) ==
    \E packet \in Packets({s}, ScanTargets) :
        packet.dport = p /\ ReachesDetector(packet) /\ analyze_packet(packet)

Alerted == Len(packet_alerts') = Len(packet_alerts) + 1

(* C1: while the calls of one source name pairwise distinct ports, all within *)
(* the time window of the first call, a PORT_SCAN alert is emitted on exactly *)
(* the call at which the count of distinct ports reaches port_scan_threshold, *)
(* and on no earlier call; no alert reports fewer than threshold ports.       *)
C1_AlertExactlyAtThreshold ==
    /\ \A s \in ScanSources :
          run[s].ok =>
             run[s].alerts = IF run[s].n >= port_scan_threshold
                             THEN {port_scan_threshold} ELSE {}
    /\ \A i \in DOMAIN packet_alerts :
          packet_alerts[i].unique_ports >= port_scan_threshold

C1_Witness ==
    \E s \in ScanSources :
        /\ run[s].ok
        /\ run[s].n = port_scan_threshold
        /\ run[s].alerts = {port_scan_threshold}
        /\ Len(packet_alerts) = 1

(* C2: a call made more than time_window after first_seen resets the tracker  *)
(* of its source to the port of that call and first_seen = now, and raises no *)
(* alert; a call made at most time_window after first_seen resets nothing: it *)
(* adds its port to the set, and the whole set is what an alert then reports. *)
C2_WindowExpiry ==
    [][\A s \in ScanSources, p \in Ports :
         DetectStep(s, p) =>
            LET old == scan_tracker[s]
                first == IF old.first_seen = None THEN now ELSE old.first_seen
                new == scan_tracker'[s]
            IN  IF now - first > Window
                THEN /\ new.ports = {p}
                     /\ new.first_seen = now
                     /\ packet_alerts' = packet_alerts
                ELSE \/ /\ new.ports = old.ports \cup {p}
                        /\ new.first_seen = first
                        /\ packet_alerts' = packet_alerts
                     \/ /\ Alerted
                        /\ Last(packet_alerts').ports = sorted(old.ports \cup {p})
                        /\ Last(packet_alerts').time_span = now - first]_vars

(* No alert was raised, earlier calls named other ports, and the tracker holds *)
(* only the port of a call made now: the earlier ports were dropped by expiry. *)
C2_Witness ==
    \E s \in ScanSources :
        /\ packet_alerts = <<>>
        /\ Cardinality(since_alert[s]) = port_scan_threshold
        /\ Cardinality(scan_tracker[s].ports) = 1
        /\ scan_tracker[s].first_seen = now
        /\ now > Window

(* C3: the call that raises a PORT_SCAN alert leaves the port set of its      *)
(* source empty and first_seen at the time of that call, and every alert uses *)
(* at least threshold distinct ports named since the previous alert.          *)
C3_ResetAfterAlert ==
    [][\A s \in ScanSources, p \in Ports :
         (DetectStep(s, p) /\ Alerted) =>
            /\ scan_tracker'[s].ports = {}
            /\ scan_tracker'[s].first_seen = now
            /\ Cardinality(since_alert[s] \cup {p}) >= port_scan_threshold]_vars

(* After an alert a port of the alerted burst is tracked again, alone. *)
C3_Witness ==
    \E s \in ScanSources :
        /\ Len(packet_alerts) = 1
        /\ Cardinality(scan_tracker[s].ports) = 1
        /\ \A p \in scan_tracker[s].ports :
              \E i \in DOMAIN packet_alerts[1].ports : packet_alerts[1].ports[i] = p


(* C4: when producer threads call detect_port_scan for one source and their   *)
(* statements interleave, the outcome is that of the calls made one after the *)
(* other: once every call has returned, a burst of fewer than threshold       *)
(* distinct ports inside the window has raised no alert and lost no port, and *)
(* a burst of exactly threshold distinct ports has raised exactly one alert   *)
(* and left the port set empty.                                               *)
C4_SerialOutcome ==
    (\A t \in Threads : pc[t] = "idle") =>
        IF Cardinality(conc_called) < port_scan_threshold
        THEN /\ packet_alerts = <<>>
             /\ scan_tracker["10.0.0.5"].ports = conc_called
        ELSE /\ Len(packet_alerts) = 1
             /\ packet_alerts[1].unique_ports = port_scan_threshold
             /\ scan_tracker["10.0.0.5"].ports = {}

----------------------------------------------------------------------------
(* ConnectionClassifier *)

(* 127.0.0.0/8 and ::1 *)
IsLoopback(address) ==
    \/ address.v = 4 /\ address.a[1] = 127
    \/ address = Lo6

InboundThreat(c) ==
    /\ c.status = "ESTABLISHED"
    /\ c.laddr # <<>>
    /\ c.raddr # <<>>
    /\ ip(c.laddr) \in local_ips
    /\ ip(c.raddr) \notin local_ips
    /\ ~IsLoopback(ip(c.raddr))

(* C5: is_inbound_connection returns true if and only if the status is        *)
(* established, both addresses are present, the local address is one of the   *)
(* machine's own, the remote address is not, and the remote address is not    *)
(* loopback; so a loopback remote address is never an inbound threat.         *)
C5_InboundRule ==
    verdict # <<>> =>
        /\ verdict[1] <=> InboundThreat(conn_in)
        /\ (conn_in.raddr # <<>> /\ IsLoopback(ip(conn_in.raddr))) => ~verdict[1]

(* An established connection from a loopback address that is not one of the   *)
(* machine's own to a machine address has been classified, as no threat.      *)
C5_Witness ==
    /\ verdict = <<FALSE>>
    /\ conn_in.status = "ESTABLISHED"
    /\ conn_in.laddr # <<>> /\ conn_in.raddr # <<>>
    /\ ip(conn_in.laddr) \in local_ips
    /\ ip(conn_in.raddr) \notin local_ips
    /\ IsLoopback(ip(conn_in.raddr))
----------------------------------------------------------------------------
(* NetworkMonitor.monitor *)

Lines(log, c) == {i \in DOMAIN log : log[i] = c}

AnalysedOnce ==
    /\ \A id \in seen_connections :
          LET same == {c \in PollConns : conn_id(c) = id}
          IN  /\ analyses[CHOOSE c \in same : TRUE] <= 1
              /\ \A c \in same : Cardinality(Lines(all_connections, conn_info(c))) <= 1
    /\ \A c \in PollConns : analyses[c] <= 1
    /\ \A c \in observed :
          InboundThreat(c) =>
              Cardinality(Lines(network_alerts, ThreatAlert(c))) = 1
    /\ Len(network_alerts) = Cardinality({c \in observed : InboundThreat(c)})

(* C6: over any sequence of polls each connection identity is analysed at most *)
(* once: analyze_connection ran at most once per identity, the evidence log    *)
(* never holds two lines of one identity, and an inbound-threat connection     *)
(* that a poll has listed has exactly one THREAT alert, however many polls     *)
(* listed it; the seen-identity set only grows, no poll evicts from it.        *)
C6_AtMostOncePerIdentity ==
    /\ []AnalysedOnce
    /\ [][seen_connections \subseteq seen_connections']_vars

C6_Witness ==
    /\ polls = MaxPolls
    /\ Threat \in observed
    /\ Len(network_alerts) = 1
    /\ Cardinality(seen_connections) >= 3

(* C7: every connection a poll has listed has a line in the evidence log,      *)
(* whatever its classification and with or without a local or remote address. *)
C7_EveryConnectionLogged ==
    \A c \in observed : Lines(all_connections, conn_info(c)) # {}

----------------------------------------------------------------------------
(* FileAccessMonitor *)

EventWindow == event_window * TicksPerSecond

DeletedLines(path) == Lines(file_access, <<<<"DELETED">>, path>>)

DeletionAlerts(path) ==
    {i \in DOMAIN alerts : /\ alerts[i].severity = "FILE_DELETED"
                           /\ alerts[i].message = <<"FILE DELETION DETECTED", path>>}

(* C8: every deleted event on a regular file produces an alert that requests  *)
(* the audible channel: a path has as many FILE_DELETED alerts as DELETED      *)
(* evidence lines, each with play_sound true, and handling a deletion appends  *)
(* its alert whatever alerts the same path had a moment before.                *)
C8_DeletionsAlwaysAlert ==
    /\ [](\A path \in Paths :
            /\ Cardinality(DeletionAlerts(path)) = Cardinality(DeletedLines(path))
            /\ \A i \in DeletionAlerts(path) : alerts[i].play_sound)
    /\ [][\A path \in Paths :
            Cardinality(DeletedLines(path))' > Cardinality(DeletedLines(path)) =>
                /\ Len(alerts') = Len(alerts) + 1
                /\ Last(alerts').severity = "FILE_DELETED"
                /\ Last(alerts').message = <<"FILE DELETION DETECTED", path>>
                /\ Last(alerts').play_sound
                /\ Last(alerts').at = now]_vars

(* a deletion alert of a path that follows, with no time between them, a      *)
(* modification alert and an earlier deletion alert of the same path           *)
C8_Witness ==
    \E path \in Paths :
        /\ Len(alerts) = 3
        /\ alerts[1].message = <<"File modified", path>>
        /\ alerts[2].message = <<"FILE DELETION DETECTED", path>>
        /\ alerts[3].message = <<"FILE DELETION DETECTED", path>>
        /\ alerts[3].play_sound
        /\ alerts[3].at = alerts[1].at

Severity(kind) == IF kind = "modified" THEN "FILE_MODIFIED" ELSE "FILE_CREATED"

Message(kind, path) ==
    <<IF kind = "modified" THEN "File modified" ELSE "File created", path>>

EvidenceLine(kind, path) == <<IF kind = "modified" THEN <<"MODIFIED">> ELSE <<"CREATED">>, path>>

(* alerts.log holds an alert of the key (kind, path) less than 1 second old *)
AlertedWithinWindow(kind, path) ==
    \E i \in DOMAIN alerts :
        /\ alerts[i].severity = Severity(kind)
        /\ alerts[i].message = Message(kind, path)
        /\ now - alerts[i].at < EventWindow

(* C9: a modified or created event on a regular file is always written to the *)
(* evidence log; if its key (kind, path) produced an alert less than 1 second  *)
(* earlier it produces no alert, otherwise it produces an alert without the    *)
(* audible channel. Alerts of other kinds or other paths play no part.         *)
C9_SuppressionWindow ==
    [][\A kind \in {"modified", "created"}, path \in Paths :
          Cardinality(Lines(file_access, EvidenceLine(kind, path)))'
              > Cardinality(Lines(file_access, EvidenceLine(kind, path))) =>
          /\ file_access' = Append(file_access, EvidenceLine(kind, path))
          /\ IF AlertedWithinWindow(kind, path)
             THEN alerts' = alerts
             ELSE alerts' = Append(alerts,
                      [severity |-> Severity(kind), message |-> Message(kind, path),
                       play_sound |-> FALSE, notify |-> TRUE, at |-> now])]_vars

(* a modified event alerted, the next one of the same path, half a second    *)
(* later, was logged without an alert, and a third, one second after the      *)
(* alert, alerted again without the audible channel                           *)
C9_Witness ==
    \E path \in Paths :
        /\ Len(alerts) = 2
        /\ alerts[1].message = Message("modified", path)
        /\ alerts[2].message = Message("modified", path)
        /\ alerts[2].at - alerts[1].at = EventWindow
        /\ ~alerts[2].play_sound
        /\ file_access = <<EvidenceLine("modified", path), EvidenceLine("modified", path),
                           EvidenceLine("modified", path)>>
        /\ recent_events[<<"modified", path>>] = now

----------------------------------------------------------------------------
(* ProcessMonitor *)

SuspiciousAlerts(log, pid) ==
    Cardinality({i \in DOMAIN log : /\ log[i].severity = "SUSPICIOUS_PROCESS"
                                    /\ log[i].message[3] = pid})

Suspicious(name) ==
    /\ ~name.none
    /\ \E suspicious \in suspicious_names : Contains(lower(name.str), suspicious)

(* C10: in every tick, a process of the snapshot whose name contains a        *)
(* suspicious substring gets exactly one SUSPICIOUS_PROCESS alert, with the    *)
(* audible channel, if its pid was not in the snapshot of the tick before      *)
(* (none before the first tick), and no alert if it was.                       *)
C10_AlertOnFirstObservation ==
    [][ticks' = ticks + 1 =>
          \A pid \in DOMAIN snapshot' :
              Suspicious(snapshot'[pid]) =>
                  IF pid \in DOMAIN snapshot
                  THEN alerts' = alerts
                  ELSE /\ SuspiciousAlerts(alerts', pid) = SuspiciousAlerts(alerts, pid) + 1
                       /\ \E i \in DOMAIN alerts' :
                             /\ i > Len(alerts)
                             /\ alerts'[i].message[3] = pid
                             /\ alerts'[i].play_sound]_vars

----------------------------------------------------------------------------
(* ProcessMonitor.check_resource_usage *)

ResourceAlerts(log, metric, pid) ==
    {i \in DOMAIN log : /\ log[i].severity = (IF metric = "cpu" THEN "HIGH_CPU" ELSE "HIGH_MEMORY")
                        /\ log[i].message[3] = pid}

NewResourceAlerts(metric, pid) ==
    {i \in ResourceAlerts(alerts', metric, pid) : i > Len(alerts)}

(* What the streak rule asks of one call for the (metric, pid) of a listed     *)
(* process whose reading is percent.                                          *)
StreakRule(metric, pid, percent) ==
    LET k == <<metric, pid>>
    IN  IF percent <= threshold(metric)
        THEN /\ high_resource_tracker'[k] = 0
             /\ NewResourceAlerts(metric, pid) = {}
        ELSE IF high_resource_tracker[k] + 1 >= alert_threshold
        THEN /\ high_resource_tracker'[k] = 0
             /\ Cardinality(NewResourceAlerts(metric, pid)) = 1
             /\ \A i \in NewResourceAlerts(metric, pid) : ~alerts'[i].play_sound
        ELSE /\ high_resource_tracker'[k] = high_resource_tracker[k] + 1
             /\ NewResourceAlerts(metric, pid) = {}

(* C11: in every tick, for every listed pid and each metric with a reading:   *)
(* a reading at or under the threshold makes the streak 0 and sends nothing;   *)
(* a reading over it that brings the streak to alert_threshold sends exactly   *)
(* one HIGH_CPU / HIGH_MEMORY alert without the audible channel and makes the  *)
(* streak 0; any other reading over it adds one to the streak.                 *)
C11_StreakReset ==
    [][\A table \in Usages :
          check_resource_usage(table) =>
              \A pid \in DOMAIN table, metric \in Metrics :
                  table[pid][metric] # None => StreakRule(metric, pid, table[pid][metric])]_vars

Complete(table) == \A pid \in DOMAIN table : table[pid].cpu # None /\ table[pid].mem # None

(* The streak rule holds in every tick whose table has every reading. *)
StreakRuleOnCompleteTables ==
    [][\A table \in Usages :
          (check_resource_usage(table) /\ Complete(table)) =>
              \A pid \in DOMAIN table, metric \in Metrics :
                  StreakRule(metric, pid, table[pid][metric])]_vars

(* C12: a HIGH_CPU / HIGH_MEMORY alert for a pid is sent in a tick only if     *)
(* the pid was listed with that metric over its threshold in that tick and in  *)
(* each of the alert_threshold - 1 ticks before it; a tick that does not list  *)
(* the pid, or lists it at or under the threshold, breaks the run.             *)
C12_ContiguousStreak ==
    [][\A metric \in Metrics, pid \in Pids :
          NewResourceAlerts(metric, pid) # {} => over_run'[<<metric, pid>>] >= alert_threshold]_vars

----------------------------------------------------------------------------
(* AlertSystem *)

(* The failures of the call are failures of the sound channel or of the      *)
(* notification channel: stdout is unusable only where the bell was to be     *)
(* written to it.                                                             *)
ChannelFailuresOnly(call) == call.env.stdout = "broken" => call.play_sound

LinesBefore(i) == Cardinality({j \in 1..(i - 1) : ~dispatched[j].raised})

(* C13: whatever fails in the sound channel and in the desktop-notification   *)
(* channel, each call of send_alert returns without raising, has attempted     *)
(* every channel that was requested, and has appended exactly one line with    *)
(* its severity and message to alerts.log.                                     *)
C13_DispatchNeverLosesAlert ==
    \A i \in DOMAIN dispatched :
        ChannelFailuresOnly(dispatched[i]) =>
            /\ ~dispatched[i].raised
            /\ dispatched[i].play_sound => dispatched[i].sound.bell # "not attempted"
            /\ dispatched[i].notify => dispatched[i].notification # "not attempted"
            /\ Len(alerts) > LinesBefore(i)
            /\ alerts[LinesBefore(i) + 1].severity = dispatched[i].severity
            /\ alerts[LinesBefore(i) + 1].message = dispatched[i].message

----------------------------------------------------------------------------
(* Alert routing *)

SinkLines(severity) == {j \in DOMAIN alerts : alerts[j].severity = severity}

(* C14: every alert a classifier produces is handed to AlertSystem.send_alert *)
(* exactly once: each PORT_SCAN alert of the packet monitor and each THREAT    *)
(* alert of the connection monitor has its own line in alerts.log.             *)
C14_EveryAlertReachesSink ==
    /\ Cardinality(SinkLines("PORT_SCAN")) = Len(packet_alerts)
    /\ Cardinality(SinkLines("THREAT")) = Len(network_alerts)

----------------------------------------------------------------------------
(* Start-up and shutdown *)

ShutdownBegun == defense_running = <<FALSE>> \/ unified_running = <<FALSE>>

(* C15: once the SIGINT handler has set running to false, no worker           *)
(* dispatches a new alert, in any interleaving of the handler with the         *)
(* workers.                                                                    *)
C15_NoAlertAfterShutdown ==
    [][ShutdownBegun => sent' = sent]_vars

(* C16: a process whose effective uid is not 0 starts no worker and exits     *)
(* with a non-zero status; a worker is started only after the check passed.    *)
C16_PrivilegeCheck ==
    /\ started # {} => euid = 0
    /\ (euid # None /\ euid # 0) =>
          /\ started = {}
          /\ sigint_handler = "default"
          /\ main_pc \in {"sys.exit(1)", "exited"}
          /\ main_pc = "exited" => exit_status \notin {None, 0}

C16_Witness ==
    /\ euid = 1000
    /\ main_pc = "exited"
    /\ exit_status = 1
    /\ started = {}

----------------------------------------------------------------------------
(* Failure isolation *)

(* C17: a process entry whose name or reading is missing affects only that    *)
(* entry: the loop of monitor goes on (the thread stays alive) and the tick    *)
(* has processed every entry of its snapshot, so that known_processes is the   *)
(* pid set of the snapshot.                                                    *)
C17_FailureIsolated ==
    /\ process_thread # "dead"
    /\ ticks > 0 => known_processes = DOMAIN snapshot

----------------------------------------------------------------------------
(* FileAccessMonitor: directory events and moves *)

AnyHandler(event) ==
    on_modified(event) \/ on_created(event) \/ on_deleted(event) \/ on_moved(event)

(* C18: an event of any kind that is flagged as a directory event produces no *)
(* alert, writes no line to the evidence log and leaves recent_events as it    *)
(* was.                                                                        *)
C18_DirectoryEventsIgnored ==
    [][\A event \in FileEvents :
          (event.is_directory /\ AnyHandler(event)) =>
              /\ alerts' = alerts
              /\ file_access' = file_access
              /\ recent_events' = recent_events]_vars

(* a directory event was handled after a modification had alerted *)
C18_Witness ==
    /\ dir_events = 1
    /\ Len(alerts) = 1
    /\ Len(file_access) = 1
    /\ \E path \in Paths : recent_events[<<"modified", path>>] # None

MovedLines == {i \in DOMAIN file_access : file_access[i][1][1] = "MOVED from"}

MoveAlerts == {i \in DOMAIN alerts : alerts[i].severity = "FILE_MOVED"}

(* C19: every moved event on a regular file produces exactly one FILE_MOVED   *)
(* alert that names source and destination and does not request the audible    *)
(* channel, however recently the same move was alerted.                        *)
C19_MovesAlwaysAlert ==
    /\ [](Cardinality(MoveAlerts) = Cardinality(MovedLines))
    /\ [][Cardinality(MovedLines)' > Cardinality(MovedLines) =>
            /\ Len(alerts') = Len(alerts) + 1
            /\ Len(file_access') = Len(file_access) + 1
            /\ Last(alerts').severity = "FILE_MOVED"
            /\ Last(alerts').message = <<"File moved", Last(file_access')[1][2],
                                         Last(file_access')[1][4]>>
            /\ ~Last(alerts').play_sound
            /\ Last(alerts').at = now]_vars

(* the same move alerted twice with no time between the two *)
C19_Witness ==
    /\ Len(alerts) = 3
    /\ alerts[1].message[1] = "File modified"
    /\ alerts[2].severity = "FILE_MOVED"
    /\ alerts[3] = alerts[2]
    /\ alerts[1].message[2] = alerts[2].message[2]
    /\ alerts[1].at = alerts[3].at

----------------------------------------------------------------------------
(* ProcessMonitor: independence of the streaks *)

(* The streak that follows streak when the reading of its own metric is       *)
(* percent; a missing reading leaves it.                                      *)
StreakAfter(metric, streak, percent) ==
    IF percent = None THEN streak
    ELSE IF percent <= threshold(metric) THEN 0
    ELSE IF streak + 1 >= alert_threshold THEN 0
    ELSE streak + 1

IndependentUpdate(table) ==
    \A k \in Metrics \X Pids :
        high_resource_tracker'[k] =
            IF k[2] \in DOMAIN table
            THEN StreakAfter(k[1], high_resource_tracker[k], table[k[2]][k[1]])
            ELSE high_resource_tracker[k]

(* C20: in every tick the new CPU streak of a pid is a function of its CPU    *)
(* reading and its previous CPU streak alone, and its new memory streak of     *)
(* its memory reading and previous memory streak alone; the streaks of pids    *)
(* the tick does not list are unchanged.                                       *)
C20_MetricIndependence ==
    [][\A table \in Usages : check_resource_usage(table) => IndependentUpdate(table)]_vars

(* The streaks are independent in every tick whose table has every reading. *)
IndependentOnCompleteTables ==
    [][\A table \in Usages :
          (check_resource_usage(table) /\ Complete(table)) => IndependentUpdate(table)]_vars


----------------------------------------------------------------------------
(* ProcessMonitor.check_new_processes: snapshot diffing *)

NewProcessLines(log, pid) ==
    Cardinality({i \in DOMAIN log : log[i][1] = "NEW_PROCESS" /\ log[i][2] = pid})

(* The diff of one check against the pid set the check before it left         *)
(* (known_processes; at the first check, the set monitor read at start-up).   *)
SnapshotDiff ==
    /\ known_processes' = DOMAIN snapshot'
    /\ \A pid \in Pids :
          IF pid \in DOMAIN snapshot' /\ pid \notin known_processes
          THEN NewProcessLines(process_log', pid) = NewProcessLines(process_log, pid) + 1
          ELSE NewProcessLines(process_log', pid) = NewProcessLines(process_log, pid)

(* C21: after every check_new_processes tick, known_processes is exactly the  *)
(* pid set of that tick's snapshot (replaced, not accumulated), and a pid is   *)
(* logged as NEW_PROCESS in the tick if and only if it is in the snapshot and  *)
(* was not in the pid set of the tick before.                                  *)
C21_SnapshotDiffing == [][ticks' = ticks + 1 => SnapshotDiff]_vars

Named(table) == \A pid \in DOMAIN table : ~table[pid].none

(* The same rule for the checks whose snapshot has the name of every new      *)
(* process.                                                                    *)
SnapshotDiffOnNamedTables ==
    [][(ticks' = ticks + 1 /\ Named(snapshot')) => SnapshotDiff]_vars


----------------------------------------------------------------------------
(* ScanDetector: one tracker per source *)

(* C22: a detect_port_scan call for one source leaves the tracker (port set,  *)
(* first_seen and the rest) of every other source as it was, and the ports an  *)
(* alert counts are ports that the alerted source itself touched since its     *)
(* previous alert: ports of different sources are never combined.              *)
C22_PerSourceIsolation ==
    [][\A packet \in SourcePackets :
         (ReachesDetector(packet) /\ analyze_packet(packet)) =>
            /\ \A other \in ScanSources \ {packet.src} :
                  scan_tracker'[other] = scan_tracker[other]
            /\ Alerted =>
                  /\ Last(packet_alerts').src = packet.src
                  /\ \A i \in DOMAIN Last(packet_alerts').ports :
                        Last(packet_alerts').ports[i]
                            \in since_alert[packet.src] \cup {packet.dport}]_vars

(* The two sources have touched threshold distinct ports between them, at     *)
(* different times, and no alert was raised.                                   *)
C22_Witness ==
    /\ packet_alerts = <<>>
    /\ scan_tracker["10.0.0.5"].ports \cap scan_tracker["10.0.0.9"].ports = {}
    /\ Cardinality(scan_tracker["10.0.0.5"].ports \cup scan_tracker["10.0.0.9"].ports)
          >= port_scan_threshold
    /\ scan_tracker["10.0.0.5"].first_seen # None
    /\ scan_tracker["10.0.0.9"].first_seen # None
    /\ scan_tracker["10.0.0.5"].first_seen < scan_tracker["10.0.0.9"].first_seen
    /\ scan_tracker["10.0.0.5"].last_seen >= scan_tracker["10.0.0.9"].first_seen


----------------------------------------------------------------------------
(* FileAccessMonitor.should_alert: the anchor of the suppression window *)

KeyAlerts(kind, path) ==
    {i \in DOMAIN alerts : /\ alerts[i].severity = Severity(kind)
                           /\ alerts[i].message = Message(kind, path)}

(* The time of the last alert of the key, None if it never alerted. *)
LastAlertAt(kind, path) ==
    IF KeyAlerts(kind, path) = {} THEN None
    ELSE alerts[CHOOSE i \in KeyAlerts(kind, path) : \A j \in KeyAlerts(kind, path) : j <= i].at

(* C23: recent_events[key] always holds the time of the last alerted event of  *)
(* the key, and a suppressed event leaves it as it was; so a modified or       *)
(* created event arriving at least 1 second after the last alerted event of    *)
(* its key alerts, whatever suppressed events came in between, and two alerts  *)
(* of one key are never less than 1 second apart.                              *)
C23_SuppressionAnchor ==
    /\ [](\A kind \in {"modified", "created"}, path \in Paths :
            /\ recent_events[<<kind, path>>] = LastAlertAt(kind, path)
            /\ \A i, j \in KeyAlerts(kind, path) :
                  i < j => alerts[j].at - alerts[i].at >= EventWindow)
    /\ [][\A kind \in {"modified", "created"}, path \in Paths :
            Cardinality(Lines(file_access, EvidenceLine(kind, path)))'
                > Cardinality(Lines(file_access, EvidenceLine(kind, path))) =>
            /\ alerts' = alerts => recent_events' = recent_events
            /\ (LastAlertAt(kind, path) # None /\ now - LastAlertAt(kind, path) >= EventWindow) =>
                  /\ Len(alerts') = Len(alerts) + 1
                  /\ Last(alerts').message = Message(kind, path)
                  /\ Last(alerts').at = now]_vars

(* A created event alerted; a second one, half a second later, was suppressed; *)
(* a third, one second after the alert and half a second after the suppressed  *)
(* one, alerted, and the anchor is the time of that alert.                     *)
C23_Witness ==
    \E path \in Paths :
        /\ file_access = <<EvidenceLine("created", path), EvidenceLine("created", path),
                           EvidenceLine("created", path)>>
        /\ Len(alerts) = 2
        /\ alerts[1].at = 0
        /\ alerts[2].at = EventWindow
        /\ recent_events[<<"created", path>>] = EventWindow
        /\ now = EventWindow


----------------------------------------------------------------------------
(* ScanDetector: the size of the tracked port set *)

Ascending(list) == \A i, j \in DOMAIN list : i < j => list[i] < list[j]

(* C24: with the calls made one after the other, after every detect_port_scan *)
(* call every source tracks fewer than port_scan_threshold ports; so every     *)
(* PORT_SCAN alert reports exactly port_scan_threshold ports, in ascending     *)
(* order, which are all the ports tracked for the burst, and with threshold 5  *)
(* the cap of 10 entries with its ellipsis is never applied.                   *)
C24_TrackerBelowThreshold ==
    /\ [](/\ \A s \in ScanSources : Cardinality(scan_tracker[s].ports) < port_scan_threshold
          /\ \A i \in DOMAIN packet_alerts :
                /\ packet_alerts[i].unique_ports = port_scan_threshold
                /\ Len(packet_alerts[i].ports) = port_scan_threshold
                /\ Ascending(packet_alerts[i].ports)
                /\ ~packet_alerts[i].ellipsis)
    /\ [][Alerted =>
            \E p \in Ports :
               Last(packet_alerts').ports
                   = sorted(scan_tracker[Last(packet_alerts').src].ports \cup {p})]_vars

(* Two bursts of one source have each raised an alert naming the five ports,  *)
(* and a port of a third burst is tracked.                                     *)
C24_Witness ==
    \E s \in ScanSources :
        /\ Len(packet_alerts) = 2
        /\ \A i \in DOMAIN packet_alerts :
              /\ packet_alerts[i].src = s
              /\ packet_alerts[i].ports = sorted(Ports)
        /\ Cardinality(since_alert[s]) = 0
        /\ scan_tracker[s].ports = {}


----------------------------------------------------------------------------
(* ProcessMonitor.check_resource_usage: the range of the streak counters *)

----------------------------------------------------------------------------
(* FileAccessMonitor: deletions and moves leave the suppression windows *)

RemovalLines ==
    {i \in DOMAIN file_access : file_access[i][1][1] \in {"DELETED", "MOVED from"}}

(* C26: handling a deleted or moved event leaves recent_events as it was, so  *)
(* it neither starts nor clears a suppression window: a modified or created    *)
(* event whose key alerted less than 1 second earlier is suppressed also when  *)
(* a deletion or move of its path was handled in between.                      *)
C26_RemovalsKeepWindows ==
    /\ [][Cardinality(RemovalLines)' > Cardinality(RemovalLines) =>
            recent_events' = recent_events]_vars
    /\ [][\A kind \in {"modified", "created"}, path \in Paths :
            (/\ Cardinality(Lines(file_access, EvidenceLine(kind, path)))'
                   > Cardinality(Lines(file_access, EvidenceLine(kind, path)))
             /\ AlertedWithinWindow(kind, path)
             /\ Len(file_access) > 0
             /\ Len(file_access) \in RemovalLines) =>
            alerts' = alerts]_vars

(* A created file was alerted, deleted, and created again within the second:  *)
(* the deletion alerted, the second creation did not.                          *)
C26_Witness ==
    \E path \in Paths :
        /\ file_access = <<EvidenceLine("created", path), <<<<"DELETED">>, path>>,
                           EvidenceLine("created", path)>>
        /\ Len(alerts) = 2
        /\ alerts[1].severity = "FILE_CREATED"
        /\ alerts[2].severity = "FILE_DELETED"
        /\ now - alerts[1].at < EventWindow
        /\ recent_events[<<"created", path>>] = alerts[1].at


----------------------------------------------------------------------------
(* ScanDetector: what is counted, and under which key *)

(* An IP packet that is a TCP segment with SYN set, or a UDP datagram. *)
Counted(packet) ==
    /\ packet.ip
    /\ \/ packet.l4 = "TCP" /\ (packet.flags \div 2) % 2 = 1
       \/ packet.l4 = "UDP"

(* The ports of the source of packet that are in its window once packet is    *)
(* counted, whatever protocol or destination address brought them.             *)
PooledPorts(packet) ==
    LET t == scan_tracker[packet.src]
    IN  IF t.first_seen # None /\ now - t.first_seen > Window
        THEN {packet.dport}
        ELSE t.ports \cup {packet.dport}

(* C27: the tracker is keyed by the source address only. A TCP segment        *)
(* without SYN (or a packet that is neither TCP nor UDP) changes nothing; the  *)
(* destination port of a SYN segment or of a UDP datagram joins the one port   *)
(* set of its source, whatever its protocol and destination address; the alert *)
(* fires when that pooled set reaches port_scan_threshold and names the        *)
(* protocol and the target of the last packet only.                            *)
C27_PooledBySource ==
    [][\A packet \in PooledPackets :
         analyze_packet(packet) =>
            IF ~Counted(packet)
            THEN scan_tracker' = scan_tracker /\ packet_alerts' = packet_alerts
            ELSE IF Cardinality(PooledPorts(packet)) >= port_scan_threshold
            THEN /\ Alerted
                 /\ Last(packet_alerts').src = packet.src
                 /\ Last(packet_alerts').ports = sorted(PooledPorts(packet))
                 /\ Last(packet_alerts').protocol = packet.l4
                 /\ Last(packet_alerts').dst = packet.dst
            ELSE /\ scan_tracker'[packet.src].ports = PooledPorts(packet)
                 /\ packet_alerts' = packet_alerts]_vars

(* An alert names the five ports, of which SynPorts came in SYN segments to   *)
(* the first address and the others in UDP datagrams to the second; it names   *)
(* UDP and the second address, those of its last packet.                       *)
C27_Witness ==
    /\ Len(packet_alerts) = 1
    /\ packet_alerts[1].ports = sorted(Ports)
    /\ packet_alerts[1].protocol = "UDP"
    /\ packet_alerts[1].dst = "192.168.1.11"
    /\ scan_tracker["10.0.0.5"].ports = {}


----------------------------------------------------------------------------
(* NetworkMonitor.monitor: the identity is marked before it is analysed *)

SameEndpoints(c, d) == c.laddr = d.laddr /\ c.raddr = d.raddr

(* C28: an identity is added to the seen set before analyze_connection runs:  *)
(* every listed connection that has an identity is in the set and was handed   *)
(* to analyze_connection exactly once, also when that analysis raised, and an  *)
(* identity that is in the set is not analysed, logged or alerted by any later *)
(* poll. The identity includes the status: connections with the same addresses *)
(* and ports and another status have another identity, analysed on its own.    *)
C28_MarkBeforeAnalyze ==
    /\ [](\A c \in observed :
            conn_id(c) # <<>> =>
               /\ conn_id(c) \in seen_connections
               /\ analyses[c] = 1
               /\ \A d \in PollConns :
                     (SameEndpoints(c, d) /\ c.status # d.status) => conn_id(c) # conn_id(d))
    /\ [][\A c \in PollConns :
            conn_id(c) \in seen_connections =>
               /\ analyses'[c] = analyses[c]
               /\ Lines(all_connections', conn_info(c)) = Lines(all_connections, conn_info(c))
               /\ InboundThreat(c) =>
                     Lines(network_alerts', ThreatAlert(c))
                         = Lines(network_alerts, ThreatAlert(c))]_vars

(* The analysis of an inbound threat raised before anything was written: the  *)
(* identity is in the seen set and has neither a line nor an alert after every *)
(* poll was made, while the same endpoints, listed with another status, were   *)
(* analysed and logged.                                                        *)
C28_Witness ==
    /\ polls = MaxPolls
    /\ Threat \in observed
    /\ conn_id(Threat) \in seen_connections
    /\ analyses[Threat] = 1
    /\ network_alerts = <<>>
    /\ all_connections = <<conn_info(Closing)>>
    /\ analyses[Closing] = 1

====
